---- MODULE Spec2Model ----
(***************************************************************************)
(* Model of bandit/cli/main.py: the command-line front end of Bandit.      *)
(* One behaviour is one run of main(): argument parsing, configuration     *)
(* load, .bandit discovery, option resolution, profile resolution, the     *)
(* baseline gate, discovery, scan, report and exit status.                 *)
(***************************************************************************)
EXTENDS Integers, Sequences, FiniteSets, TLC

\* ------------------------------------------------------------------------
\* Bounds of the model
\* ------------------------------------------------------------------------
\* inputs of one run that deviate from the plain invocation `bandit p1` with
\* an empty configuration: command-line flags given, environment signals,
\* configuration options set and keys held by the ini file, taken together
MaxInputs == 2
\* repetitions of a count flag (-l / -i)
MaxReps == 4
\* .bandit files lying under one target root
MaxBanditFiles == 2
\* issues the scan reports at or above both thresholds
MaxIssues == 2

\* ------------------------------------------------------------------------
\* Python values.  A str is a sequence of symbols (an identifier, a digit
\* or the separator ","), so that split() and int() have work to do.
\* ------------------------------------------------------------------------
None == [t |-> "none", s |-> <<>>, n |-> 0, l |-> <<>>]
Str(x) == [t |-> "str", s |-> x, n |-> 0, l |-> <<>>]
S(x) == Str(<<x>>)
PInt(x) == [t |-> "int", s |-> <<>>, n |-> x, l |-> <<>>]
PBool(b) == [t |-> "bool", s |-> <<>>, n |-> IF b THEN 1 ELSE 0, l |-> <<>>]
PList(q) == [t |-> "list", s |-> <<>>, n |-> 0, l |-> q]
PFile(q) == [t |-> "file", s |-> q, n |-> 0, l |-> <<>>]

\* bool(v)
Truthy(v) ==
    CASE v.t = "none" -> FALSE
      [] v.t = "str" -> v.s # <<>>
      [] v.t = "list" -> v.l # <<>>
      [] v.t \in {"int", "bool"} -> v.n # 0
      [] OTHER -> TRUE

\* a == b (bool is a subclass of int: True == 1)
PyEq(a, b) ==
    IF a.t \in {"int", "bool"} /\ b.t \in {"int", "bool"}
    THEN a.n = b.n
    ELSE a = b

\* str(v), for the values main() applies it to
PyStr(v) ==
    CASE v.t = "str" -> v
      [] v.t = "bool" -> IF v.n = 1 THEN S("True") ELSE S("False")
      [] OTHER -> S("None")

\* s.split(",")
RECURSIVE Split(_)
Split(s) ==
    IF s = <<>> THEN << <<>> >>
    ELSE LET rest == Split(Tail(s))
         IN  IF Head(s) = ","
             THEN << <<>> >> \o rest
             ELSE << <<Head(s)>> \o Head(rest) >> \o Tail(rest)

Digits == {"0", "1", "2", "3", "4", "5", "6", "7", "8", "9"}
DigitVal ==
    "0" :> 0 @@ "1" :> 1 @@ "2" :> 2 @@ "3" :> 3 @@ "4" :> 4 @@
    "5" :> 5 @@ "6" :> 6 @@ "7" :> 7 @@ "8" :> 8 @@ "9" :> 9

\* int(s) raises ValueError unless s is a non-empty run of digits
IsInt(s) == s # <<>> /\ \A k \in 1..Len(s) : s[k] \in Digits
RECURSIVE IntOf(_)
IntOf(s) ==
    IF s = <<>> THEN 0
    ELSE 10 * IntOf(SubSeq(s, 1, Len(s) - 1)) + DigitVal[s[Len(s)]]

\* set(seq)
Range(q) == {q[k] : k \in 1..Len(q)}

\* ------------------------------------------------------------------------
\* Collaborators outside main.py
\* ------------------------------------------------------------------------
\* constants.RANKING
RANKING == <<"UNDEFINED", "LOW", "MEDIUM", "HIGH">>
\* ",".join(constants.EXCLUDE)
EXCLUDE == Str(<<".svn", ",", ".git">>)
\* extension_mgr.formatter_names
formatter_names == {"csv", "custom", "json", "screen", "txt"}
\* formatters whose plugin has _accepts_baseline
baseline_formatters == {"json", "screen", "txt"}
\* test identifiers the registry knows (extension_mgr.validate_profile)
KnownTests == {<<"B101">>, <<"B102">>, <<"B103">>, <<"B104">>}

\* The files on disk.  BanditConfig(config_file): no file gives the empty
\* configuration, a malformed file raises ConfigError.
ConfigMalformed(path) == path = S("bad.yaml")
ConfigContent(path) ==
    [loaded |-> TRUE,
     log_format |-> IF path = S("log.yaml") THEN S("fmt") ELSE None,
     profiles |-> IF path = S("profiles.yaml")
                  THEN {[name |-> S("p"), include |-> {<<"B101">>},
                         exclude |-> {<<"B104">>}],
                        [name |-> S("q"), include |-> {<<"B999">>},
                         exclude |-> {}]}
                  ELSE {},
     tests |-> IF path = S("tests.yaml") THEN << <<"B102">> >> ELSE <<>>,
     skips |-> IF path = S("tests.yaml") THEN << <<"B104">> >> ELSE <<>>]
\* open(path) succeeds
Readable(path) == path = S("bl")

\* ------------------------------------------------------------------------
\* Inputs of a run: the command line (sys.argv, one entry per flag) and the
\* environment signals read at startup.
\* ------------------------------------------------------------------------
P1 == <<"p1">>
P2 == <<"p2">>

FlagNames ==
    {"targets", "recursive", "aggregate", "number", "configfile", "profile",
     "tests", "skip", "level", "severity_level", "confidence",
     "confidence_level", "format", "msg_template", "output", "verbose",
     "debug", "quiet", "ignore_nosec", "exclude", "baseline", "ini",
     "exit_zero", "no_line_numbers"}
EnvNames == {"isatty", "NO_COLOR", "TERM"}

\* `bandit p1` on a pipe, NO_COLOR unset, TERM=xterm
BaseInput ==
    [targets |-> PList(<<P1>>), recursive |-> PBool(FALSE), aggregate |-> None,
     number |-> None, configfile |-> None, profile |-> None, tests |-> None,
     skip |-> None, level |-> PInt(0), severity_level |-> None,
     confidence |-> PInt(0), confidence_level |-> None, format |-> None,
     msg_template |-> None, output |-> None, verbose |-> PBool(FALSE),
     debug |-> PBool(FALSE), quiet |-> PBool(FALSE),
     ignore_nosec |-> PBool(FALSE), exclude |-> None, baseline |-> None,
     ini |-> None, exit_zero |-> PBool(FALSE), no_line_numbers |-> None,
     isatty |-> PBool(FALSE), NO_COLOR |-> None, TERM |-> S("xterm")]

\* the other values each input takes
InputAlts ==
    [targets |-> {PList(<<>>), PList(<<P1, P2>>)},
     recursive |-> {PBool(TRUE)},
     aggregate |-> {S("vuln")},
     number |-> {S("5"), S("x")},
     configfile |-> {S("log.yaml"), S("profiles.yaml"), S("tests.yaml"),
                     S("bad.yaml")},
     profile |-> {S("p"), S("q")},
     tests |-> {Str(<<"B101", ",", "B102">>), S("B999")},
     skip |-> {S("B103"), S("B102")},
     level |-> {PInt(k) : k \in 1..MaxReps},
     severity_level |-> {S("high"), S("low")},
     confidence |-> {PInt(k) : k \in 1..MaxReps},
     confidence_level |-> {S("high")},
     format |-> {S("json"), S("custom"), S("csv")},
     msg_template |-> {S("tpl")},
     output |-> {S("out")},
     verbose |-> {PBool(TRUE)},
     debug |-> {PBool(TRUE)},
     quiet |-> {PBool(TRUE)},
     ignore_nosec |-> {PBool(TRUE)},
     exclude |-> {S("build")},
     baseline |-> {S("bl"), S("missing")},
     ini |-> {S("ini")},
     exit_zero |-> {PBool(TRUE)},
     no_line_numbers |-> {S("yes")},
     isatty |-> {PBool(TRUE)},
     NO_COLOR |-> {S("1")},
     TERM |-> {S("dumb")}]

\* the inputs that differ from BaseInput in at most k entries
RECURSIVE Deviate(_)
Deviate(k) ==
    IF k = 0 THEN {BaseInput}
    ELSE LET P == Deviate(k - 1)
         IN  P \cup UNION {{[r EXCEPT ![f] = v] : v \in InputAlts[f]} :
                               r \in P, f \in DOMAIN BaseInput}

Deviations(r) == Cardinality({f \in DOMAIN r : r[f] # BaseInput[f]})

\* ------------------------------------------------------------------------
\* The argument parser (main, lines 154-435)
\* ------------------------------------------------------------------------
\* the default of --format
DefaultOutputFormat(env) ==
    IF Truthy(env.isatty) /\ env.NO_COLOR = None /\ env.TERM # S("dumb")
    THEN S("screen")
    ELSE S("txt")

\* parser.get_default(dest), by dest
ParserDefaults(fmt) ==
    [targets |-> None, recursive |-> PBool(FALSE), agg_type |-> S("file"),
     context_lines |-> PInt(3), config_file |-> None, profile |-> None,
     tests |-> None, skips |-> None, severity |-> PInt(1),
     severity_string |-> None, confidence |-> PInt(1),
     confidence_string |-> None, output_format |-> fmt,
     msg_template |-> None, output_file |-> PFile(<<"stdout">>),
     verbose |-> PBool(FALSE), debug |-> PBool(FALSE), quiet |-> PBool(FALSE),
     ignore_nosec |-> PBool(FALSE), excluded_paths |-> EXCLUDE,
     baseline |-> None, ini_path |-> None, exit_zero |-> PBool(FALSE),
     no_line_numbers |-> PBool(FALSE)]

LevelNames == {S("all"), S("low"), S("medium"), S("high")}

\* the count taken as the number of occurrences alone
CountAction_FromZero(default, reps) == IF reps = 0 THEN default ELSE reps

\* action="count": every occurrence of the flag adds one to the default
CountAction(default, reps) == default + reps

\* value of a store action: the default unless the flag is given
Store(default, given) == IF given = None THEN default ELSE given

\* argparse rejects the command line (parser.error: usage, exit status 2)
ParseError(av) ==
    \/ av.aggregate # None /\ av.aggregate \notin {S("file"), S("vuln")}
    \/ av.number # None /\ ~IsInt(av.number.s)
    \/ av.level.n > 0 /\ av.severity_level # None
    \/ av.severity_level # None /\ av.severity_level \notin LevelNames
    \/ av.confidence.n > 0 /\ av.confidence_level # None
    \/ av.confidence_level # None /\ av.confidence_level \notin LevelNames
    \/ av.format # None /\ (Len(av.format.s) # 1 \/ av.format.s[1] \notin formatter_names)
    \/ Truthy(av.verbose) /\ Truthy(av.quiet)

\* parser.parse_args() on an accepted command line
parse_args(av, fmt) ==
    LET d == ParserDefaults(fmt)
    IN  [targets |-> av.targets,
         recursive |-> av.recursive,
         agg_type |-> Store(d.agg_type, av.aggregate),
         context_lines |-> IF av.number = None THEN d.context_lines
                           ELSE PInt(IntOf(av.number.s)),
         config_file |-> av.configfile,
         profile |-> av.profile,
         tests |-> av.tests,
         skips |-> av.skip,
         severity |-> PInt(CountAction(d.severity.n, av.level.n)),
         severity_string |-> av.severity_level,
         confidence |-> PInt(CountAction(d.confidence.n, av.confidence.n)),
         confidence_string |-> av.confidence_level,
         output_format |-> Store(d.output_format, av.format),
         msg_template |-> av.msg_template,
         output_file |-> IF av.output = None THEN d.output_file
                         ELSE PFile(av.output.s),
         verbose |-> av.verbose,
         debug |-> av.debug,
         quiet |-> av.quiet,
         ignore_nosec |-> av.ignore_nosec,
         excluded_paths |-> Store(d.excluded_paths, av.exclude),
         baseline |-> av.baseline,
         ini_path |-> av.ini,
         exit_zero |-> av.exit_zero,
         no_line_numbers |-> Store(d.no_line_numbers, av.no_line_numbers)]

\* lines 441-461: a level given by name replaces the count
LevelFromString(name, count) ==
    CASE name = S("all") -> PInt(1)
      [] name = S("low") -> PInt(2)
      [] name = S("medium") -> PInt(3)
      [] name = S("high") -> PInt(4)
      [] OTHER -> count

\* the namespace after lines 435-461
Namespace(av, fmt) ==
    LET a0 == parse_args(av, fmt)
    IN  [a0 EXCEPT !.severity = LevelFromString(a0.severity_string, @),
                   !.confidence = LevelFromString(a0.confidence_string, @)]

\* lines 437-438: --msg-template without --format custom
TemplateWithoutCustom(a) == a.output_format # S("custom") /\ a.msg_template # None

\* a handler added beside the old ones: the sink is not replaced
_init_logger_KeepHandlers(log, log_level, log_format) ==
    [level |-> log_level,
     format |-> IF Truthy(log_format) THEN log_format ELSE S("default"),
     inits |-> log.inits]

\* _init_logger: the handlers are cleared and one new handler is installed
_init_logger(log, log_level, log_format) ==
    [level |-> log_level,
     format |-> IF Truthy(log_format) THEN log_format ELSE S("default"),
     inits |-> log.inits + 1]

\* ------------------------------------------------------------------------
\* State of a run
\* ------------------------------------------------------------------------
VARIABLES
    pc,             \* position in main()
    argv,           \* sys.argv, by flag
    environ,        \* os.environ and the tty state of stdout
    args,           \* the argparse namespace
    output_format,  \* default of --format computed at line 268
    LOG,            \* the root logger
    calls,          \* functions called so far, in order
    b_conf,         \* BanditConfig
    bandit_files,   \* .bandit files found by _get_options_from_ini
    ini_options,    \* result of _get_options_from_ini
    profile,        \* the profile dictionary
    b_mgr,          \* BanditManager
    sev_level,      \* RANKING label of the severity threshold
    conf_level,     \* RANKING label of the confidence threshold
    results_count,  \* b_mgr.results_count(sev_level, conf_level)
    exit_code,      \* process exit status, -1 while running
    exc             \* uncaught exception that ended the run, "" if none

vars ==
    <<pc, argv, environ, args, output_format, LOG, calls, b_conf,
      bandit_files, ini_options, profile, b_mgr, sev_level, conf_level,
      results_count, exit_code, exc>>

NoConfig == [loaded |-> FALSE, log_format |-> None, profiles |-> {},
             tests |-> <<>>, skips |-> <<>>]
NoManager == [constructed |-> FALSE, agg_type |-> None, debug |-> None,
              profile |-> [include |-> {}, exclude |-> {}], verbose |-> None,
              quiet |-> None, ignore_nosec |-> None, baseline |-> None]

Init ==
    /\ pc = "start"
    /\ \E r \in Deviate(MaxInputs) :
         /\ argv = [f \in FlagNames |-> r[f]]
         /\ environ = [isatty |-> r.isatty, NO_COLOR |-> r.NO_COLOR,
                       TERM |-> r.TERM, BANDIT_NO_LINES |-> None]
    /\ args = parse_args(BaseInput, S("txt"))
    /\ output_format = None
    /\ LOG = [level |-> "NOTSET", format |-> None, inits |-> 0]
    /\ calls = <<>>
    /\ b_conf = NoConfig
    /\ bandit_files = <<>>
    /\ ini_options = [isNone |-> TRUE, d |-> {}, file |-> None]
    /\ profile = [include |-> {}, exclude |-> {}]
    /\ b_mgr = NoManager
    /\ sev_level = ""
    /\ conf_level = ""
    /\ results_count = 0
    /\ exit_code = -1
    /\ exc = ""

\* inputs already spent by the command line and the environment
InputsUsed ==
    Deviations([f \in FlagNames |-> argv[f]])
      + Deviations([f \in EnvNames |-> environ[f]])

\* the process has not exited
Running == exit_code = -1
\* sys.exit(code): pc stays at the step that ended the run
Exit(code) == pc' = pc /\ exit_code' = code /\ exc' = ""
\* an exception nobody catches: traceback, exit status 1
Raise(e) == pc' = pc /\ exit_code' = 1 /\ exc' = e
\* the run goes on at the next step
Goto(l) == pc' = l /\ UNCHANGED <<exit_code, exc>>

\* the steps of main() in program order
Order ==
    <<"start", "config", "ini", "resolve", "targets", "logger", "profile",
      "update_profile", "manager", "baseline", "discover", "tests", "run",
      "levels", "output", "exit">>
Pos(l) == CHOOSE i \in 1..Len(Order) : Order[i] = l
\* the run has completed step l
After(l) == Pos(pc) > Pos(l)
\* f has been called
Called(f) == \E i \in 1..Len(calls) : calls[i] = f

\* main, lines 137-464: logger, parser, parse_args, level names,
\* BANDIT_NO_LINES
StartUp ==
    /\ pc = "start" /\ Running
    /\ LET fmt == DefaultOutputFormat(environ)
           a1 == Namespace(argv, fmt)
       IN  /\ LOG' = _init_logger(LOG, IF Truthy(argv.debug) THEN "DEBUG" ELSE "INFO", None)
           /\ output_format' = fmt
           /\ IF ParseError(argv) \/ TemplateWithoutCustom(a1)
              THEN /\ calls' = calls \o <<"_init_logger", "print_usage">>
                   /\ Exit(2)
                   /\ UNCHANGED <<args, environ>>
              ELSE /\ calls' = calls \o <<"_init_logger", "parse_args">>
                   /\ args' = a1
                   /\ environ' = IF a1.no_line_numbers # None
                                 THEN [environ EXCEPT !.BANDIT_NO_LINES =
                                          PyStr(a1.no_line_numbers)]
                                 ELSE environ
                   /\ Goto("config")
    /\ UNCHANGED <<argv, b_conf, bandit_files, ini_options, profile, b_mgr,
                   sev_level, conf_level, results_count>>

\* main, lines 466-470: load the configuration
LoadConfig ==
    /\ pc = "config" /\ Running
    /\ IF ConfigMalformed(args.config_file)
       THEN /\ calls' = calls \o <<"BanditConfig", "LOG.error">>
            /\ Exit(2)
            /\ UNCHANGED b_conf
       ELSE /\ calls' = Append(calls, "BanditConfig")
            /\ b_conf' = ConfigContent(args.config_file)
            /\ Goto("ini")
    /\ UNCHANGED <<argv, environ, args, output_format, LOG, bandit_files,
                   ini_options, profile, b_mgr, sev_level, conf_level,
                   results_count>>

\* ------------------------------------------------------------------------
\* .bandit discovery (_get_options_from_ini, lines 46-75)
\* ------------------------------------------------------------------------
\* what utils.parse_ini_file can return for a key of the [bandit] section
IniEntries ==
    {[k |-> "exclude", v |-> S("build")],
     [k |-> "skips", v |-> S("B103")],
     [k |-> "tests", v |-> S("B102")],
     [k |-> "tests", v |-> Str(<<>>)],
     [k |-> "targets", v |-> Str(<<"p1", ",", "p2">>)],
     [k |-> "recursive", v |-> S("true")],
     [k |-> "aggregate", v |-> S("vuln")],
     [k |-> "number", v |-> S("5")],
     [k |-> "number", v |-> S("0")],
     [k |-> "number", v |-> S("x")],
     [k |-> "profile", v |-> S("p")],
     [k |-> "level", v |-> S("3")],
     [k |-> "confidence", v |-> S("3")],
     [k |-> "format", v |-> S("csv")],
     [k |-> "format", v |-> S("custom")],
     [k |-> "msg-template", v |-> S("tpl")],
     [k |-> "output", v |-> S("out")],
     [k |-> "verbose", v |-> S("true")],
     [k |-> "debug", v |-> S("true")],
     [k |-> "quiet", v |-> S("true")],
     [k |-> "ignore-nosec", v |-> S("true")],
     [k |-> "baseline", v |-> S("bl")],
     [k |-> "no-line-numbers", v |-> S("yes")]}

\* the dictionaries of at most k keys
RECURSIVE IniDicts(_)
IniDicts(k) ==
    IF k <= 0 THEN {{}}
    ELSE LET P == IniDicts(k - 1)
         IN  P \cup UNION {{d \cup {e} :
                               e \in {x \in IniEntries : \A y \in d : y.k # x.k}} :
                             d \in P}

\* ini_options.get(key)
IniGet(d, key) ==
    IF \E e \in d : e.k = key THEN (CHOOSE e \in d : e.k = key).v ELSE None

\* os.path.join(root, ..., ".bandit"): the i-th .bandit file under root t
BanditPath(t, i) == t \o [k \in 1..(i - 1) |-> "sub/"] \o <<"/.bandit">>

\* lines 55-58: walk every target in turn and collect the .bandit files
RECURSIVE Walk(_, _)
Walk(target, fs) ==
    IF target = <<>> THEN <<>>
    ELSE [i \in 1..fs[Head(target)] |-> BanditPath(Head(target), i)]
           \o Walk(Tail(target), fs)

\* the error raised only from the third file on
MultipleFiles_OffByOne(files) == Len(files) > 2

\* line 60: more than one file is an error
MultipleFiles(files) == Len(files) > 1

\* the targets searched although an ini path is given
SearchTargets_Always(ini_path) == TRUE

\* line 50: the targets are searched only without an explicit ini path
SearchTargets(ini_path) == ~Truthy(ini_path)

\* main line 473 and _get_options_from_ini; ini_options remembers the file
\* it was read from (ini_file)
GetOptionsFromIni ==
    /\ pc = "ini" /\ Running
    /\ \E fs \in [Range(args.targets.l) -> 0..MaxBanditFiles],
          d \in IniDicts(MaxInputs - InputsUsed),
          parsed \in BOOLEAN :
         LET found == IF SearchTargets(args.ini_path)
                      THEN Walk(args.targets.l, fs)
                      ELSE <<>>
             ini_file == IF Truthy(args.ini_path) THEN args.ini_path
                         ELSE IF Len(found) = 1 THEN Str(found[1])
                         ELSE None
         IN  /\ bandit_files' = found
             /\ IF MultipleFiles(found)
                THEN /\ calls' = calls \o <<"_get_options_from_ini", "LOG.error">>
                     /\ Exit(2)
                     /\ UNCHANGED ini_options
                ELSE /\ calls' = Append(calls, "_get_options_from_ini")
                     /\ ini_options' =
                          IF Truthy(ini_file) /\ parsed
                          THEN [isNone |-> FALSE, d |-> d, file |-> ini_file]
                          ELSE [isNone |-> TRUE, d |-> {}, file |-> ini_file]
                     /\ Goto("resolve")
    /\ UNCHANGED <<argv, environ, args, output_format, LOG, b_conf, profile,
                   b_mgr, sev_level, conf_level, results_count>>

\* ------------------------------------------------------------------------
\* Option resolution (lines 84-101 and 474-613)
\* ------------------------------------------------------------------------
\* the ini value preferred for an option without default
LogOptionSource_IniFirst(default_val, arg_val, ini_val) ==
    IF default_val = None
    THEN IF Truthy(ini_val) THEN ini_val
         ELSE IF Truthy(arg_val) THEN arg_val
         ELSE None
    ELSE IF PyEq(default_val, arg_val)
         THEN IF Truthy(ini_val) THEN ini_val ELSE arg_val
         ELSE arg_val

\* _log_option_source(default_val, arg_val, ini_val, option_name)
LogOptionSource(default_val, arg_val, ini_val) ==
    IF default_val = None
    THEN IF Truthy(arg_val) THEN arg_val
         ELSE IF Truthy(ini_val) THEN ini_val
         ELSE None
    ELSE IF PyEq(default_val, arg_val)
         THEN IF Truthy(ini_val) THEN ini_val ELSE arg_val
         ELSE arg_val

\* lines 497-499: the ini targets, split at the commas
IniTargets(d) ==
    LET v == IniGet(d, "targets")
    IN  IF Truthy(v) THEN PList(Split(v.s)) ELSE v

\* line 527 raises ValueError: int() of a value that is no number
IniNumberInvalid(d) ==
    LET v == IniGet(d, "number") IN Truthy(v) /\ ~IsInt(v.s)

\* line 527: int(ini_options.get("number") or 0) or None
IniNumber(d) ==
    LET v == IniGet(d, "number")
        k == IF Truthy(v) THEN IntOf(v.s) ELSE 0
    IN  IF k # 0 THEN PInt(k) ELSE None

\* lines 476-522: the options resolved before context_lines
ResolvedUpToNumber(a, d, dflt) ==
    [a EXCEPT
       !.excluded_paths = LogOptionSource(dflt.excluded_paths, a.excluded_paths,
                                          IniGet(d, "exclude")),
       !.skips = LogOptionSource(dflt.skips, a.skips, IniGet(d, "skips")),
       !.tests = LogOptionSource(dflt.tests, a.tests, IniGet(d, "tests")),
       !.targets = LogOptionSource(dflt.targets, a.targets, IniTargets(d)),
       !.recursive = LogOptionSource(dflt.recursive, a.recursive,
                                     IniGet(d, "recursive")),
       !.agg_type = LogOptionSource(dflt.agg_type, a.agg_type,
                                    IniGet(d, "aggregate"))]

\* lines 524-613: the remaining options, in the order of the source
ResolvedArgs(a, d, dflt) ==
    LET b == ResolvedUpToNumber(a, d, dflt)
        baseline == LogOptionSource(dflt.baseline, a.baseline,
                                    IniGet(d, "baseline"))
    IN  [b EXCEPT
           !.context_lines = LogOptionSource(dflt.context_lines, a.context_lines,
                                             IniNumber(d)),
           !.profile = LogOptionSource(dflt.profile, a.profile,
                                       IniGet(d, "profile")),
           !.severity = LogOptionSource(dflt.severity, a.severity,
                                        IniGet(d, "level")),
           !.confidence = LogOptionSource(dflt.confidence, a.confidence,
                                          IniGet(d, "confidence")),
           !.output_format = LogOptionSource(dflt.output_format, a.output_format,
                                             IniGet(d, "format")),
           !.msg_template = LogOptionSource(dflt.msg_template, a.msg_template,
                                            IniGet(d, "msg-template")),
           !.output_file = LogOptionSource(dflt.output_file, a.output_file,
                                           IniGet(d, "output")),
           !.verbose = LogOptionSource(dflt.verbose, a.verbose,
                                       IniGet(d, "verbose")),
           !.debug = LogOptionSource(dflt.debug, a.debug, IniGet(d, "debug")),
           !.quiet = LogOptionSource(dflt.quiet, a.quiet, IniGet(d, "quiet")),
           !.ignore_nosec = LogOptionSource(dflt.ignore_nosec, a.ignore_nosec,
                                            IniGet(d, "ignore-nosec")),
           !.baseline = baseline,
           \* line 610 passes args.baseline where args.no_line_numbers belongs
           !.no_line_numbers = LogOptionSource(dflt.no_line_numbers, baseline,
                                               IniGet(d, "no-line-numbers"))]

\* `if ini_options:` a dictionary with at least one key
IniContributes(ini) == ~ini.isNone /\ ini.d # {}

\* main, lines 474-613
ResolveOptions ==
    /\ pc = "resolve" /\ Running
    /\ LET dflt == ParserDefaults(output_format)
       IN  IF ~IniContributes(ini_options)
           THEN /\ Goto("targets")
                /\ UNCHANGED <<args, calls>>
           ELSE /\ calls' = Append(calls, "_log_option_source")
                /\ IF IniNumberInvalid(ini_options.d)
                   THEN /\ args' = ResolvedUpToNumber(args, ini_options.d, dflt)
                        /\ Raise("ValueError")
                   ELSE /\ args' = ResolvedArgs(args, ini_options.d, dflt)
                        /\ Goto("targets")
    /\ UNCHANGED <<argv, environ, output_format, LOG, b_conf, bandit_files,
                   ini_options, profile, b_mgr, sev_level, conf_level,
                   results_count>>

\* the test `args.targets is None` in place of `not args.targets`
NoTargets_IsNone(a) == a.targets = None

\* line 615: `if not args.targets`
NoTargets(a) == ~Truthy(a.targets)

\* main, lines 615-617
CheckTargets ==
    /\ pc = "targets" /\ Running
    /\ IF NoTargets(args)
       THEN calls' = Append(calls, "print_usage") /\ Exit(2)
       ELSE UNCHANGED calls /\ Goto("logger")
    /\ UNCHANGED <<argv, environ, args, output_format, LOG, b_conf,
                   bandit_files, ini_options, profile, b_mgr, sev_level,
                   conf_level, results_count>>

\* main, lines 619-625: the logger is set up again for a configured log
\* format, and again for quiet
ReinitLogger ==
    /\ pc = "logger" /\ Running
    /\ LET fmt == Truthy(b_conf.log_format)
           quiet == Truthy(args.quiet)
           log1 == IF fmt THEN _init_logger(LOG, "DEBUG", b_conf.log_format)
                   ELSE LOG
           log2 == IF quiet THEN _init_logger(log1, "WARN", None) ELSE log1
       IN  /\ LOG' = log2
           /\ calls' = calls \o (IF fmt THEN <<"_init_logger">> ELSE <<>>)
                             \o (IF quiet THEN <<"_init_logger">> ELSE <<>>)
    /\ Goto("profile")
    /\ UNCHANGED <<argv, environ, args, output_format, b_conf, bandit_files,
                   ini_options, profile, b_mgr, sev_level, conf_level,
                   results_count>>

\* ------------------------------------------------------------------------
\* Profile resolution (lines 111-122 and 627-637)
\* ------------------------------------------------------------------------
\* a missing profile taken for an empty one
ProfileKnown_Always(config, profile_name) == TRUE

\* profiles.get(profile_name) found an entry
ProfileKnown(config, profile_name) ==
    \E p \in config.profiles : p.name = profile_name

\* _get_profile(config, profile_name, config_path), when it does not raise
GetProfile(config, profile_name) ==
    IF Truthy(profile_name)
    THEN LET found == {p \in config.profiles : p.name = profile_name}
         IN  [include |-> UNION {p.include : p \in found},
              exclude |-> UNION {p.exclude : p \in found}]
    ELSE [include |-> Range(config.tests), exclude |-> Range(config.skips)]

\* `x.split(",") if x else []`, as a set
IdList(x) == IF Truthy(x) THEN Range(Split(x.s)) ELSE {}

\* the command-line lists replacing the sets of the profile
UpdateProfile_Replace(prof, tests, skips) ==
    [include |-> IF Truthy(tests) THEN IdList(tests) ELSE prof.include,
     exclude |-> IF Truthy(skips) THEN IdList(skips) ELSE prof.exclude]

\* lines 631-632: profile["include"].update(...), profile["exclude"].update(...)
UpdateProfile(prof, tests, skips) ==
    [include |-> prof.include \cup IdList(tests),
     exclude |-> prof.exclude \cup IdList(skips)]

\* extension_mgr.validate_profile(profile) does not raise ValueError
ValidProfile(prof) == (prof.include \cup prof.exclude) \subseteq KnownTests

\* main, lines 628-629 (and the handler of lines 635-637)
ReadProfile ==
    /\ pc = "profile" /\ Running
    /\ IF Truthy(args.profile) /\ ~ProfileKnown(b_conf, args.profile)
       THEN /\ calls' = calls \o <<"_get_profile", "LOG.error">>
            /\ Exit(2)
            /\ UNCHANGED profile
       ELSE /\ calls' = calls \o <<"_get_profile", "_log_info">>
            /\ profile' = GetProfile(b_conf, args.profile)
            /\ Goto("update_profile")
    /\ UNCHANGED <<argv, environ, args, output_format, LOG, b_conf,
                   bandit_files, ini_options, b_mgr, sev_level, conf_level,
                   results_count>>

\* main, lines 631-633 (and the handler of lines 635-637)
MergeProfile ==
    /\ pc = "update_profile" /\ Running
    /\ profile' = UpdateProfile(profile, args.tests, args.skips)
    /\ IF ValidProfile(profile')
       THEN calls' = Append(calls, "validate_profile") /\ Goto("manager")
       ELSE calls' = calls \o <<"validate_profile", "LOG.error">> /\ Exit(2)
    /\ UNCHANGED <<argv, environ, args, output_format, LOG, b_conf,
                   bandit_files, ini_options, b_mgr, sev_level, conf_level,
                   results_count>>

\* the tests BanditManager builds its test set (b_ts.tests) from
EffectiveTests(prof) ==
    ((IF prof.include = {} THEN KnownTests ELSE prof.include) \cap KnownTests)
       \ prof.exclude

\* main, lines 639-647
ConstructManager ==
    /\ pc = "manager" /\ Running
    /\ b_mgr' = [constructed |-> TRUE, agg_type |-> args.agg_type,
                 debug |-> args.debug, profile |-> profile,
                 verbose |-> args.verbose, quiet |-> args.quiet,
                 ignore_nosec |-> args.ignore_nosec, baseline |-> None]
    /\ calls' = Append(calls, "BanditManager")
    /\ Goto("baseline")
    /\ UNCHANGED <<argv, environ, args, output_format, LOG, b_conf,
                   bandit_files, ini_options, profile, sev_level, conf_level,
                   results_count>>

\* ------------------------------------------------------------------------
\* Baseline gate, discovery, scan, report, exit status (lines 649-706)
\* ------------------------------------------------------------------------
\* the format looked up among all formatters
AcceptsBaseline_AnyFormatter(fmt) ==
    fmt.t = "str" /\ Len(fmt.s) = 1 /\ fmt.s[1] \in formatter_names

\* the membership test left out
AcceptsBaseline_Always(fmt) == TRUE

\* line 658: args.output_format in baseline_formatters
AcceptsBaseline(fmt) ==
    fmt.t = "str" /\ Len(fmt.s) = 1 /\ fmt.s[1] \in baseline_formatters

\* the OSError swallowed: the run goes on as if the file had been read
BaselineReadFails_Never(path) == FALSE

\* lines 650-654: open(args.baseline) raises OSError
BaselineReadFails(path) == ~Readable(path)

\* main, lines 649-663
Baseline ==
    /\ pc = "baseline" /\ Running
    /\ IF args.baseline = None
       THEN UNCHANGED <<b_mgr, calls>> /\ Goto("discover")
       ELSE IF BaselineReadFails(args.baseline)
       THEN /\ calls' = calls \o <<"open", "LOG.warning">>
            /\ Exit(2)
            /\ UNCHANGED b_mgr
       ELSE /\ b_mgr' = [b_mgr EXCEPT !.baseline = args.baseline]
            /\ IF AcceptsBaseline(args.output_format)
               THEN /\ calls' = calls \o <<"open", "populate_baseline">>
                    /\ Goto("discover")
               ELSE /\ calls' = calls \o <<"open", "populate_baseline",
                                           "LOG.warning">>
                    /\ Exit(2)
    /\ UNCHANGED <<argv, environ, args, output_format, LOG, b_conf,
                   bandit_files, ini_options, profile, sev_level, conf_level,
                   results_count>>

\* main, lines 665-677
DiscoverFiles ==
    /\ pc = "discover" /\ Running
    /\ calls' = calls \o (IF args.output_format # S("json")
                          THEN <<"LOG.info">> ELSE <<>>)
                      \o <<"discover_files">>
    /\ Goto("tests")
    /\ UNCHANGED <<argv, environ, args, output_format, LOG, b_conf,
                   bandit_files, ini_options, profile, b_mgr, sev_level,
                   conf_level, results_count>>

\* the test `is None` in place of `not b_mgr.b_ts.tests`
NoTestsToRun_IsNone(mgr) == FALSE

\* line 679: `if not b_mgr.b_ts.tests`
NoTestsToRun(mgr) == EffectiveTests(mgr.profile) = {}

\* main, lines 679-681
CheckTests ==
    /\ pc = "tests" /\ Running
    /\ IF NoTestsToRun(b_mgr)
       THEN calls' = Append(calls, "LOG.error") /\ Exit(2)
       ELSE UNCHANGED calls /\ Goto("run")
    /\ UNCHANGED <<argv, environ, args, output_format, LOG, b_conf,
                   bandit_files, ini_options, profile, b_mgr, sev_level,
                   conf_level, results_count>>

\* main, lines 684-686
RunTests ==
    /\ pc = "run" /\ Running
    /\ calls' = Append(calls, "run_tests")
    /\ Goto("levels")
    /\ UNCHANGED <<argv, environ, args, output_format, LOG, b_conf,
                   bandit_files, ini_options, profile, b_mgr, sev_level,
                   conf_level, results_count>>

\* `level - 1` raises TypeError unless level is a number
IsNumber(v) == v.t \in {"int", "bool"}
\* RANKING[i] raises IndexError outside -len..len-1
IndexOk(i) == -Len(RANKING) <= i /\ i < Len(RANKING)
\* RANKING[i], a negative index counting from the end
RankingAt(i) == IF i >= 0 THEN RANKING[i + 1] ELSE RANKING[Len(RANKING) + i + 1]

\* main, lines 689-690
MapLevels ==
    /\ pc = "levels" /\ Running
    /\ IF ~IsNumber(args.severity)
       THEN Raise("TypeError") /\ UNCHANGED <<sev_level, conf_level>>
       ELSE IF ~IndexOk(args.severity.n - 1)
       THEN Raise("IndexError") /\ UNCHANGED <<sev_level, conf_level>>
       ELSE /\ sev_level' = RankingAt(args.severity.n - 1)
            /\ IF ~IsNumber(args.confidence)
               THEN Raise("TypeError") /\ UNCHANGED conf_level
               ELSE IF ~IndexOk(args.confidence.n - 1)
               THEN Raise("IndexError") /\ UNCHANGED conf_level
               ELSE /\ conf_level' = RankingAt(args.confidence.n - 1)
                    /\ Goto("output")
    /\ UNCHANGED <<argv, environ, args, output_format, LOG, calls, b_conf,
                   bandit_files, ini_options, profile, b_mgr, results_count>>

\* main, lines 691-698
OutputResults ==
    /\ pc = "output" /\ Running
    /\ calls' = Append(calls, "output_results")
    /\ Goto("exit")
    /\ UNCHANGED <<argv, environ, args, output_format, LOG, b_conf,
                   bandit_files, ini_options, profile, b_mgr, sev_level,
                   conf_level, results_count>>

\* exit-zero ignored
ExitCode_NoExitZero(count, exit_zero) == IF count > 0 THEN 1 ELSE 0

\* issues reported with the status of an error
ExitCode_IssuesAsError(count, exit_zero) ==
    IF count > 0 /\ ~Truthy(exit_zero) THEN 2 ELSE 0

\* lines 700-706: the exit status
ExitCode(count, exit_zero) ==
    IF count > 0 /\ ~Truthy(exit_zero) THEN 1 ELSE 0

\* main, lines 700-706
ExitStatus ==
    /\ pc = "exit" /\ Running
    /\ \E count \in 0..MaxIssues :
         /\ results_count' = count
         /\ Exit(ExitCode(count, args.exit_zero))
    /\ calls' = Append(calls, "results_count")
    /\ UNCHANGED <<argv, environ, args, output_format, LOG, b_conf,
                   bandit_files, ini_options, profile, b_mgr, sev_level,
                   conf_level>>

Next ==
    \/ StartUp
    \/ LoadConfig
    \/ GetOptionsFromIni
    \/ ResolveOptions
    \/ CheckTargets
    \/ ReinitLogger
    \/ ReadProfile
    \/ MergeProfile
    \/ ConstructManager
    \/ Baseline
    \/ DiscoverFiles
    \/ CheckTests
    \/ RunTests
    \/ MapLevels
    \/ OutputResults
    \/ ExitStatus

Spec == Init /\ [][Next]_vars

\* ------------------------------------------------------------------------
\* Properties
\* ------------------------------------------------------------------------
\* the namespace handed to option resolution: what the command line supplied
Supplied == Namespace(argv, output_format)
\* option resolution ran to its end with an ini file that contributed
IniResolved == After("resolve") /\ IniContributes(ini_options)

DefaultedOptions ==
    {"excluded_paths", "recursive", "agg_type", "context_lines", "severity",
     "confidence", "output_format", "output_file", "verbose", "debug",
     "quiet", "ignore_nosec", "no_line_numbers"}
DefaultlessOptions ==
    {"tests", "skips", "targets", "profile", "msg_template", "baseline"}

\* the ini key of an option
IniKey ==
    [excluded_paths |-> "exclude", recursive |-> "recursive",
     agg_type |-> "aggregate", context_lines |-> "number",
     severity |-> "level", confidence |-> "confidence",
     output_format |-> "format", output_file |-> "output",
     verbose |-> "verbose", debug |-> "debug", quiet |-> "quiet",
     ignore_nosec |-> "ignore-nosec", no_line_numbers |-> "no-line-numbers",
     tests |-> "tests", skips |-> "skips", targets |-> "targets",
     profile |-> "profile", msg_template |-> "msg-template",
     baseline |-> "baseline"]

\* the value the ini file holds for an option, in the type of the option:
\* the number as an integer, the targets as a list
IniValue(o) ==
    CASE o = "context_lines" ->
           LET v == IniGet(ini_options.d, "number")
           IN  IF Truthy(v) /\ IsInt(v.s) /\ IntOf(v.s) # 0
               THEN PInt(IntOf(v.s)) ELSE None
      [] o = "targets" ->
           LET v == IniGet(ini_options.d, "targets")
           IN  IF Truthy(v) THEN PList(Split(v.s)) ELSE None
      [] OTHER -> IniGet(ini_options.d, IniKey[o])

\* C1: for every defaulted option, when an ini file contributed and the
\* supplied value differs from the schema default, the resolved value is the
\* supplied value.  The code breaks it for no-line-numbers (line 610).
C1_SuppliedWins ==
    IniResolved =>
        \A o \in DefaultedOptions :
            ~PyEq(Supplied[o], ParserDefaults(output_format)[o])
                => args[o] = Supplied[o]

\* C2: for every defaulted option, when the supplied value equals the schema
\* default and the ini file holds a (non-empty) value for the option, the
\* resolved value is the ini value.  The code breaks it for no-line-numbers.
C2_IniFillsDefault ==
    IniResolved =>
        \A o \in DefaultedOptions :
            (PyEq(Supplied[o], ParserDefaults(output_format)[o])
               /\ Truthy(IniValue(o)))
                => args[o] = IniValue(o)

\* C3: for every defaultless option, after resolution with an ini file: a
\* non-empty supplied value is the resolved value; otherwise a (non-empty) ini
\* value is; otherwise the option is unset (None).
C3_Defaultless ==
    IniResolved =>
        \A o \in DefaultlessOptions :
            args[o] = IF Truthy(Supplied[o]) THEN Supplied[o]
                      ELSE IF Truthy(IniValue(o)) THEN IniValue(o)
                      ELSE None

\* C3 witness: resolution took the tests from the ini file, kept the targets
\* of the command line and left the baseline unset
C3_Witness ==
    /\ IniResolved
    /\ argv.tests = None /\ args.tests = S("B102")
    /\ args.targets = argv.targets /\ Truthy(argv.targets)
    /\ args.baseline = None

\* the ordinal and the label that the name "high" selects
HighOrdinal == LevelFromString(S("high"), None)
HighLabel == RANKING[Len(RANKING)]

C5_ExitStatus ==
    (pc = "exit" /\ ~Running) =>
        /\ exit_code = 1 <=> (results_count > 0 /\ ~Truthy(argv.exit_zero))
        /\ exit_code \in {0, 1}

\* C5 witness: issues were found, exit-zero was requested, the status is 0
C5_Witness ==
    /\ pc = "exit" /\ ~Running
    /\ results_count > 0 /\ Truthy(argv.exit_zero) /\ exit_code = 0

\* what only happens after .bandit discovery
AfterDiscovery ==
    {"_log_option_source", "_get_profile", "validate_profile",
     "BanditManager", "discover_files", "run_tests", "output_results"}

\* C6: without an explicit ini path, .bandit files at two or more distinct
\* paths end the run with status 2 before option resolution, profile
\* resolution, file discovery, scan and report
C6_AmbiguousIni ==
    (~Truthy(argv.ini) /\ Cardinality(Range(bandit_files)) >= 2) =>
        /\ pc = "ini" /\ exit_code = 2
        /\ \A f \in AfterDiscovery : ~Called(f)

\* C6 witness: two roots with one .bandit file each
C6_Witness ==
    /\ Len(argv.targets.l) = 2 /\ Len(bandit_files) = 2
    /\ Cardinality(Range(bandit_files)) = 2
    /\ exit_code = 2

\* what the configuration contributes to the profile: the named profile, or
\* the ad hoc one of its tests and skips
ConfiguredInclude ==
    IF Truthy(args.profile)
    THEN UNION {p.include : p \in {q \in b_conf.profiles : q.name = args.profile}}
    ELSE Range(b_conf.tests)
ConfiguredExclude ==
    IF Truthy(args.profile)
    THEN UNION {p.exclude : p \in {q \in b_conf.profiles : q.name = args.profile}}
    ELSE Range(b_conf.skips)

\* C7: the profile handed to the scan manager includes every identifier of
\* the resolved tests list and of the configured profile, and excludes every
\* identifier of the resolved skip list and of the configured profile
C7_AdditiveProfile ==
    b_mgr.constructed =>
        /\ IdList(args.tests) \cup ConfiguredInclude \subseteq b_mgr.profile.include
        /\ IdList(args.skips) \cup ConfiguredExclude \subseteq b_mgr.profile.exclude

\* C7 witness: the command line adds a test to the ones of the configuration
C7_Witness ==
    /\ b_mgr.constructed
    /\ ConfiguredInclude # {}
    /\ IdList(args.tests) \ ConfiguredInclude # {}
    /\ ConfiguredExclude # {}

\* C8: with a baseline path resolved and an output format that is not
\* baseline-capable, the run does not pass the baseline gate, ends with status
\* 2 and never calls output_results
C8_BaselineFormat ==
    (After("resolve") /\ args.baseline # None
       /\ (Len(args.output_format.s) # 1
             \/ args.output_format.s[1] \notin baseline_formatters)) =>
        /\ Pos(pc) <= Pos("baseline")
        /\ ~Running => exit_code = 2
        /\ ~Called("output_results")

\* C8 witness: the baseline was read, the format is refused, status 2
C8_Witness ==
    /\ pc = "baseline" /\ exit_code = 2
    /\ Called("populate_baseline")
    /\ args.output_format = S("csv")

\* what needs a valid profile
NeedsProfile == {"BanditManager", "discover_files", "run_tests"}

\* C9: a resolved profile name the configuration does not hold, or an
\* identifier of the final profile the registry does not know, ends the run
\* with status 2 before the scan manager, discover_files and run_tests
C9_ProfileErrors ==
    /\ (After("resolve") /\ Truthy(args.profile)
          /\ ~\E p \in b_conf.profiles : p.name = args.profile) =>
           /\ Pos(pc) <= Pos("profile")
           /\ ~Running => exit_code = 2
           /\ \A f \in NeedsProfile : ~Called(f)
    /\ (Called("validate_profile")
          /\ ~((profile.include \cup profile.exclude) \subseteq KnownTests)) =>
           /\ pc = "update_profile" /\ exit_code = 2
           /\ \A f \in NeedsProfile : ~Called(f)

\* C9 witness: the profile name is not in the configuration, status 2
C9_Witness ==
    /\ pc = "profile" /\ exit_code = 2
    /\ Truthy(args.profile) /\ b_conf.profiles = {}

\* what follows the check of the targets
AfterTargets ==
    {"_get_profile", "BanditManager", "discover_files", "run_tests"}

\* C10: an empty resolved target list ends the run at the check of the
\* targets: usage is printed, the status is 2, and neither profile
\* resolution nor the scan manager, discovery or scan happens
C10_NoTargets ==
    (After("resolve") /\ ~Truthy(args.targets)) =>
        /\ pc = "targets"
        /\ ~Running => (exit_code = 2 /\ Called("print_usage"))
        /\ \A f \in AfterTargets : ~Called(f)

\* C10 witness: no target on the command line and no ini file: usage is
\* printed and the status is 2
C10_Witness ==
    /\ pc = "targets" /\ exit_code = 2
    /\ argv.targets = PList(<<>>) /\ args.targets = PList(<<>>)
    /\ Called("print_usage") /\ ~Called("_get_profile")

\* what follows the reading of the baseline
AfterBaseline == {"discover_files", "run_tests"}

\* C11: when the resolved baseline path cannot be read, the run ends at the
\* baseline step with a warning and status 2, and neither discovery nor the
\* scan is invoked
C11_UnreadableBaseline ==
    (After("resolve") /\ args.baseline # None /\ ~Readable(args.baseline)) =>
        /\ Pos(pc) <= Pos("baseline")
        /\ (pc = "baseline" /\ ~Running) =>
              /\ exit_code = 2
              /\ calls[Len(calls)] = "LOG.warning"
              /\ ~Called("populate_baseline")
        /\ \A f \in AfterBaseline : ~Called(f)

\* C11 witness: the baseline file is missing, the manager was constructed,
\* the open failed and the run ended with status 2
C11_Witness ==
    /\ pc = "baseline" /\ exit_code = 2
    /\ args.baseline = S("missing") /\ b_mgr.constructed
    /\ Called("open") /\ ~Called("discover_files")

\* what follows the check of the tests
AfterTests == {"run_tests", "output_results"}

\* C12: when the scan manager has no test to run, the run ends at the check
\* of the tests with status 2; that check comes after discover_files has
\* been called, and neither the scan nor the report is invoked
C12_NoTests ==
    (b_mgr.constructed /\ EffectiveTests(b_mgr.profile) = {}) =>
        /\ Pos(pc) <= Pos("tests")
        /\ pc = "tests" => Called("discover_files")
        /\ (pc = "tests" /\ ~Running) =>
              (exit_code = 2 /\ calls[Len(calls)] = "LOG.error")
        /\ \A f \in AfterTests : ~Called(f)

\* C12 witness: the profile includes only what it excludes; the targets were
\* discovered and the run ended with status 2 at the check of the tests
C12_Witness ==
    /\ pc = "tests" /\ exit_code = 2
    /\ b_mgr.profile.include # {}
    /\ b_mgr.profile.include \subseteq b_mgr.profile.exclude
    /\ Called("discover_files") /\ ~Called("run_tests")

\* C13: status 2 is only given before the scan: a run that has invoked
\* run_tests is still running or has ended with another status, so every
\* exit with status 2 happened strictly before run_tests
C13_NoErrorExitAfterScan ==
    /\ Called("run_tests") => exit_code \in {-1, 0, 1}
    /\ exit_code = 2 => Pos(pc) < Pos("run")

\* C13 witness: the scan ran, issues were found and the run ended with
\* status 1 at the last step
C13_Witness ==
    /\ pc = "exit" /\ exit_code = 1 /\ exc = ""
    /\ Called("run_tests") /\ results_count > 0

\* the run ended at the check of the format against the baseline-capable
\* formats (line 658): the baseline was read, then status 2
FormatRefused ==
    /\ pc = "baseline" /\ exit_code = 2
    /\ b_mgr.baseline # None

\* C14 as stated: a run that ends with status 2 because its format is not
\* baseline-capable has already invoked discover_files
C14_AfterDiscovery == FormatRefused => Called("discover_files")

\* C14: the format is checked against the baseline-capable formats before
\* the targets are discovered: a run that ends with status 2 because of its
\* format has not invoked discover_files, and with a readable baseline and
\* such a format discover_files is never invoked
C14_BeforeDiscovery ==
    /\ FormatRefused => ~Called("discover_files")
    /\ (After("resolve") /\ args.baseline # None /\ Readable(args.baseline)
          /\ (Len(args.output_format.s) # 1
                \/ args.output_format.s[1] \notin baseline_formatters)) =>
           ~Called("discover_files")

\* C14 witness: the manager holds the baseline, the format is custom, the
\* run ended with status 2 and nothing was discovered
C14_Witness ==
    /\ FormatRefused
    /\ args.output_format = S("custom")
    /\ calls[Len(calls)] = "LOG.warning"
    /\ ~Called("discover_files")

\* the format is one of the baseline-capable ones
BaselineCapable ==
    Len(args.output_format.s) = 1
       /\ args.output_format.s[1] \in baseline_formatters

RankingOrdinal(v) == v.t = "int" /\ v.n \in 1..Len(RANKING)

\* C16: in every run that reaches the mapping of the thresholds, the
\* severity and the confidence are integer ordinals in 1..4
C16_OrdinalsInRange ==
    pc = "levels" =>
        (RankingOrdinal(args.severity) /\ RankingOrdinal(args.confidence))

\* C17: when the report is emitted, the environment variable BANDIT_NO_LINES
\* holds the resolved no-line-numbers value, also when the ini file gave it
C17_NoLinesSignal ==
    Called("output_results") =>
        environ.BANDIT_NO_LINES = PyStr(args.no_line_numbers)

\* 1 for a true condition, 0 for a false one
OneIf(b) == IF b THEN 1 ELSE 0

\* the reconfigurations that follow the load of the configuration
LaterInits ==
    OneIf(Truthy(b_conf.log_format)) + OneIf(Truthy(args.quiet))

\* C18 as stated: the logging sink is reconfigured at most twice in a run
C18_AtMostTwice == LOG.inits <= 2

\* C18: the logging sink is reconfigured at most three times in a run: once
\* at startup, then once more for a configured log format and once more for
\* a resolved quiet flag
C18_AtMostThrice ==
    /\ LOG.inits <= 3
    /\ pc = "start" => LOG.inits = OneIf(~Running)
    /\ (After("start") /\ ~After("logger")) => LOG.inits = 1
    /\ After("logger") => LOG.inits = 1 + LaterInits

\* C18 witness: a configured log format and the quiet flag: the sink has
\* been set up three times
C18_Witness ==
    /\ After("logger") /\ LOG.inits = 3
    /\ Truthy(b_conf.log_format) /\ Truthy(args.quiet)
    /\ LOG.level = "WARN"

\* C19: an explicit ini path is used unconditionally: the targets are not
\* searched for .bandit files, the run cannot end with the error of multiple
\* files, and the options are read from the explicit file and no other
C19_ExplicitIni ==
    Truthy(argv.ini) =>
        /\ bandit_files = <<>>
        /\ ~(pc = "ini" /\ ~Running)
        /\ After("ini") => ini_options.file = argv.ini

\* C19 witness: an ini path on the command line beside a target; the file
\* was parsed and its options have been resolved
C19_Witness ==
    /\ argv.ini = S("ini") /\ Truthy(argv.targets)
    /\ After("resolve")
    /\ IniContributes(ini_options) /\ ini_options.file = S("ini")

\* C20: when the report is emitted, the resolved message template is null
\* unless the resolved output format is custom, also when the ini file gave
\* either of them
C20_TemplateOnlyWithCustom ==
    Called("output_results") =>
        (args.msg_template = None \/ args.output_format = S("custom"))

\* C21: in every run that constructs the scan manager, the resolved verbose
\* flag and the resolved quiet flag are not both true, also when one comes
\* from the command line and the other from the ini file
C21_VerboseQuietExclusive ==
    b_mgr.constructed => ~(Truthy(b_mgr.verbose) /\ Truthy(b_mgr.quiet))

====
